---------------------------- MODULE Spec2Model ----------------------------
(***************************************************************************)
(* Model of remote-pull: pkg/ssh (parseSSHConfig, RunCommand,              *)
(* TransferFile, CopyAndRun) and internal/transfer (TransferImage).        *)
(*                                                                         *)
(* Strings are sequences of tokens.  A path is a token sequence in which   *)
(* the token "/" is the separator.  Progress percentages are kept in       *)
(* hundredths of a percent (10000 = 100.00%).                              *)
(***************************************************************************)
EXTENDS Integers, Sequences, FiniteSets, TLC

VARIABLES
    top,          \* the operation the caller invoked
    op,           \* the pkg/ssh operation currently executing ("none" if none)
    pc,           \* position of the control task inside op
    ret,          \* result of op: "none" | "ok" | "err"
    out,          \* the string RunCommand returned
    console,      \* what the remote command printed on the bound stdout
    conn,         \* Connection: "none" | "open" | "closed"
    sess,         \* Session states, by role ("transfer", "command")
    defers,       \* stack of deferred Close calls of the control task
    log,          \* resource events in the order they happened
    sPc,          \* position of the streaming goroutine
    stdin,        \* transfer Session's input stream: "none" | "open" | "closed"
    wDefer,       \* the goroutine has deferred w.Close()
    broken,       \* the input stream rejects every further write
    done,         \* transferDone channel: "open" | "closed"
    sig,          \* what the control task received from transferDone
    started,      \* transfer Session's started flag (session.Start was called)
    sink,         \* remote sink process: "none" | "running" | "exited"
    sinkStatus,   \* exit status of the sink
    cmd,          \* remote command process: "none" | "running" | "exited"
    cmdStatus,    \* exit status of the remote command
    src,          \* local source path
    fileSize,     \* byte length of the source file
    off,          \* read offset in the source file
    n,            \* byte count returned by the last Read
    copiedBytes,  \* TransferState.copiedBytes
    totalBytes,   \* TransferState.totalBytes
    progress,     \* last computed percentage in hundredths, -1 if none computed
    prints,       \* number of progress lines printed
    wire,         \* what has been written to the input stream, in order
    errs,         \* local streaming-side errors that happened
    shorts,       \* number of short reads so far
    tiPc,         \* position inside TransferImage / transferImage
    tiRet,        \* result of TransferImage
    remoteServer, \* the user@host argument, split at "@"
    imageName,    \* the image argument
    imagePresent, \* the image exists on the remote
    pulled,       \* docker pull ran locally
    archive,      \* temporary archive: "none" | "present" | "removed"
    calls,        \* pkg/ssh calls made by TransferImage, in order
    cfg,          \* the configuration file: a sequence of lines
    host,         \* the alias parseSSHConfig resolves
    idx,          \* number of lines scanned so far
    currentHost,  \* parseSSHConfig's currentHost
    inMatchingHost, \* parseSSHConfig's inMatchingHost
    config,       \* the sshConfig being built
    pPc,          \* position inside parseSSHConfig
    pErr,         \* the error parseSSHConfig returned: "none" | "nil" | "err"
    pStat,        \* what os.Stat found of the configuration file: "none" | "missing" | "exists"
    user,         \* NewClient's user argument
    agentSock,    \* $SSH_AUTH_SOCK
    ncPc,         \* position inside NewClient
    ncRet,        \* result of NewClient: "none" | "ok" | "parse" | "dial"
    effectiveHost, \* NewClient's effectiveHost
    effectiveUser, \* NewClient's effectiveUser
    port,         \* NewClient's port
    authMethods,  \* NewClient's authMethods
    keyPaths,     \* NewClient's keyPaths
    keyIdx,       \* number of keyPaths already tried
    dialAddr,     \* the address handed to ssh.Dial
    dialUser      \* ClientConfig.User handed to ssh.Dial

sshVars   == <<op, pc, ret, out, console, conn, sess, defers, log>>
streamVars == <<sPc, stdin, wDefer, broken, done, sig, started>>
procVars  == <<sink, sinkStatus, cmd, cmdStatus>>
fileVars  == <<src, fileSize, off, n, copiedBytes, totalBytes, progress, prints,
               wire, errs, shorts>>
imageVars == <<tiPc, tiRet, remoteServer, imageName, imagePresent, pulled,
               archive, calls>>
parseVars == <<cfg, host, idx, currentHost, inMatchingHost, config, pPc, pErr, pStat>>
clientVars == <<user, agentSock, ncPc, ncRet, effectiveHost, effectiveUser, port,
                authMethods, keyPaths, keyIdx, dialAddr, dialUser>>
vars == <<top, sshVars, streamVars, procVars, fileVars, imageVars, parseVars, clientVars>>

---------------------------------------------------------------------------
(* Bounds and program constants *)

BufSize == 32768
MaxChunks == 2
MaxShortReads == 1
MaxLines == 4

Min(a, b) == IF a < b THEN a ELSE b

FileSizes ==
    {0, 1, 100} \cup {k * BufSize - 1 : k \in 1..MaxChunks}
                \cup {k * BufSize     : k \in 1..MaxChunks}
                \cup {k * BufSize + 1 : k \in 1..MaxChunks}

Paths == { <<"a.tar">>, <<"/", "tmp", "/", "a.tar">> }

---------------------------------------------------------------------------
(* String helpers *)

RECURSIVE LastSep(_, _)
LastSep(p, i) ==
    IF i = 0 THEN 0
    ELSE IF p[i] = "/" THEN i ELSE LastSep(p, i - 1)

\* filepath.Base: the part of the path after the last separator
Base(p) == SubSeq(p, LastSep(p, Len(p)) + 1, Len(p))

Rev(s) == [i \in 1..Len(s) |-> s[Len(s) + 1 - i]]

RECURSIVE Count(_, _)
Count(s, t) ==
    IF s = <<>> THEN 0
    ELSE (IF Head(s) = t THEN 1 ELSE 0) + Count(Tail(s), t)

RECURSIVE Split(_, _)
\* strings.Split(s, sep)
Split(s, sep) ==
    IF Count(s, sep) = 0 THEN <<s>>
    ELSE LET i == CHOOSE k \in 1..Len(s) :
                     s[k] = sep /\ \A j \in 1..(k - 1) : s[j] # sep
         IN  <<SubSeq(s, 1, i - 1)>> \o Split(SubSeq(s, i + 1, Len(s)), sep)

\* strings.ReplaceAll(s, old, new)
ReplaceAll(s, old, new) == [i \in 1..Len(s) |-> IF s[i] = old THEN new ELSE s[i]]

IsSpace(t) == t \in {" ", "\n", "\t"}

RECURSIVE TrimLeft(_)
TrimLeft(s) == IF s # <<>> /\ IsSpace(Head(s)) THEN TrimLeft(Tail(s)) ELSE s

\* strings.TrimSpace
TrimSpace(s) == Rev(TrimLeft(Rev(TrimLeft(s))))

\* "C0644 %d %s\n"
Header(size, path) == [kind |-> "C", mode |-> "0644", size |-> size, off |-> 0, name |-> Base(path)]
Chunk(o, len)      == [kind |-> "D", mode |-> "", size |-> len, off |-> o, name |-> <<>>]
Null               == [kind |-> "Z", mode |-> "", size |-> 0, off |-> 0, name |-> <<>>]

\* float64(copiedBytes) / float64(totalBytes) * 100 printed with %.2f
Percent(copied, total) == (2 * 10000 * copied + total) \div (2 * total)


---------------------------------------------------------------------------
(* Shared pieces of the pkg/ssh operations *)

\* Closes with the deferred calls run in the order they were deferred
Closes_Fifo(stack) == [i \in 1..Len(stack) |-> <<"close", stack[i]>>]

\* the deferred Close calls of a function, run last deferred first
Closes(stack) == [i \in 1..Len(stack) |-> <<"close", Rev(stack)[i]>>]

InStack(r, stack) == \E i \in 1..Len(stack) : stack[i] = r

\* Return with the Session closes forgotten: only the Connection is closed
Return_LeakSessions(e) ==
    /\ ret' = e
    /\ pc' = "returned"
    /\ sess' = sess
    /\ conn' = IF InStack("conn", defers) THEN "closed" ELSE conn
    /\ log' = log \o Closes(defers)
    /\ defers' = <<>>

\* A return of the control task: the deferred Close calls run, last deferred
\* first, and the result is delivered.
Return(e) ==
    /\ ret' = e
    /\ pc' = "returned"
    /\ sess' = [r \in DOMAIN sess |-> IF InStack(r, defers) THEN "closed" ELSE sess[r]]
    /\ conn' = IF InStack("conn", defers) THEN "closed" ELSE conn
    /\ log' = log \o Closes(defers)
    /\ defers' = <<>>

\* client, err := NewClient(user, host); defer client.Close()
Connected(next) ==
    /\ conn' = "open"
    /\ defers' = Append(defers, "conn")
    /\ log' = Append(log, <<"open", "conn">>)
    /\ pc' = next
    /\ UNCHANGED <<ret, sess>>

\* session, err := client.NewSession(); defer session.Close()
SessionOpened(role, next) ==
    /\ sess' = [sess EXCEPT ![role] = "open"]
    /\ defers' = Append(defers, role)
    /\ log' = Append(log, <<"open", role>>)
    /\ pc' = next
    /\ UNCHANGED <<ret, conn>>

\* The input stream takes a write only while it is open and unbroken.
CanAccept == stdin = "open" /\ ~broken /\ sess["transfer"] = "open"

WriteOutcomes == IF CanAccept THEN {TRUE, FALSE} ELSE {FALSE}

\* Byte counts a Read of the source file may return when data remains.
ReadCounts ==
    {Min(BufSize, fileSize - off)}
        \cup (IF shorts < MaxShortReads /\ fileSize - off > 1 THEN {1} ELSE {})

---------------------------------------------------------------------------
(* The remote processes (environment) *)

\* The sink may exit at any time once started, with any status.
SinkExit ==
    /\ sink = "running"
    /\ sink' = "exited"
    /\ \E st \in {0, 1} : sinkStatus' = st
    /\ UNCHANGED <<top, clientVars, sshVars, streamVars, cmd, cmdStatus, fileVars, imageVars, parseVars>>

\* Output of "docker images -q <image>": the image id and a newline, or nothing.
RemoteOutput == IF imagePresent THEN <<"id", "\n">> ELSE <<>>

CommandExit ==
    /\ cmd = "running"
    /\ cmd' = "exited"
    /\ \E st \in {0, 1} :
          /\ cmdStatus' = st
          /\ console' = IF op = "RunCommand" /\ st = 0 THEN RemoteOutput ELSE console
    /\ UNCHANGED <<top, clientVars, op, pc, ret, out, conn, sess, defers, log, streamVars,
                   sink, sinkStatus, fileVars, imageVars, parseVars>>

---------------------------------------------------------------------------
(* CopyAndRun: control task *)

CopyAndRun_NewClient ==
    /\ op = "CopyAndRun" /\ pc = "NewClient"
    /\ \/ Connected("NewSession")
       \/ Return("err")
    /\ UNCHANGED <<top, clientVars, op, out, console, streamVars, procVars, fileVars, imageVars, parseVars>>

CopyAndRun_NewSession ==
    /\ op = "CopyAndRun" /\ pc = "NewSession"
    /\ \/ SessionOpened("transfer", "go")
       \/ Return("err")
    /\ UNCHANGED <<top, clientVars, op, out, console, streamVars, procVars, fileVars, imageVars, parseVars>>

\* transferDone := make(chan error); go func() { ... }()
CopyAndRun_Go ==
    /\ op = "CopyAndRun" /\ pc = "go"
    /\ pc' = "Start"
    /\ sPc' = "StdinPipe"
    /\ done' = "open"
    /\ UNCHANGED <<top, clientVars, op, ret, out, console, conn, sess, defers, log,
                   stdin, wDefer, broken, sig, started,
                   procVars, fileVars, imageVars, parseVars>>

\* transferSession.Run, first half (Session.Start): the session is marked
\* started and the sink command is requested.  A session started without a
\* stdin pipe feeds the sink an empty input and closes it.
CopyAndRun_Start ==
    /\ op = "CopyAndRun" /\ pc = "Start"
    /\ started' = TRUE
    /\ \/ /\ sink' = "running"
          /\ stdin' = IF stdin = "none" THEN "closed" ELSE stdin
          /\ pc' = "Wait"
          /\ log' = Append(log, <<"run", "transfer">>)
          /\ UNCHANGED <<ret, conn, sess, defers>>
       \/ /\ Return("err")
          /\ UNCHANGED <<sink, stdin>>
    /\ UNCHANGED <<top, clientVars, op, out, console, sPc, wDefer, broken, done, sig,
                   sinkStatus, cmd, cmdStatus, fileVars, imageVars, parseVars>>

\* CopyAndRun_Wait with the result of transferSession.Run dropped
CopyAndRun_Wait_Unchecked ==
    /\ op = "CopyAndRun" /\ pc = "Wait"
    /\ sink = "exited"
    /\ pc' = "Recv"
    /\ UNCHANGED <<ret, conn, sess, defers, log>>
    /\ UNCHANGED <<top, clientVars, op, out, console, streamVars, procVars, fileVars, imageVars, parseVars>>

\* transferSession.Run, second half (Session.Wait) and its error check
CopyAndRun_Wait ==
    /\ op = "CopyAndRun" /\ pc = "Wait"
    /\ sink = "exited"
    /\ \/ /\ sinkStatus = 0
          /\ pc' = "Recv"
          /\ UNCHANGED <<ret, conn, sess, defers, log>>
       \/ /\ sinkStatus # 0
          /\ Return("err")
    /\ UNCHANGED <<top, clientVars, op, out, console, streamVars, procVars, fileVars, imageVars, parseVars>>

\* if err := <-transferDone; err != nil { return ... }
CopyAndRun_Recv ==
    /\ op = "CopyAndRun" /\ pc = "Recv"
    /\ \/ /\ sPc = "send"
          /\ sig' = "err"
          /\ sPc' = "defer"
          /\ Return("err")
       \/ /\ done = "closed"
          /\ sig' = "nil"
          /\ pc' = "CommandSession"
          /\ UNCHANGED <<sPc, ret, conn, sess, defers, log>>
    /\ UNCHANGED <<top, clientVars, op, out, console, stdin, wDefer, broken, done, started,
                   procVars, fileVars, imageVars, parseVars>>

CopyAndRun_CommandSession ==
    /\ op = "CopyAndRun" /\ pc = "CommandSession"
    /\ \/ SessionOpened("command", "CommandStart")
       \/ Return("err")
    /\ UNCHANGED <<top, clientVars, op, out, console, streamVars, procVars, fileVars, imageVars, parseVars>>

\* commandSession.Run(command), first half
CopyAndRun_CommandStart ==
    /\ op = "CopyAndRun" /\ pc = "CommandStart"
    /\ \/ /\ cmd' = "running"
          /\ pc' = "CommandWait"
          /\ log' = Append(log, <<"run", "command">>)
          /\ UNCHANGED <<ret, conn, sess, defers>>
       \/ /\ Return("err")
          /\ UNCHANGED cmd
    /\ UNCHANGED <<top, clientVars, op, out, console, streamVars, sink, sinkStatus, cmdStatus,
                   fileVars, imageVars, parseVars>>

\* CopyAndRun_CommandWait with the result of commandSession.Run dropped
CopyAndRun_CommandWait_Unchecked ==
    /\ op = "CopyAndRun" /\ pc = "CommandWait"
    /\ cmd = "exited"
    /\ Return("ok")
    /\ UNCHANGED <<top, clientVars, op, out, console, streamVars, procVars, fileVars, imageVars, parseVars>>

\* commandSession.Run(command), second half, and the final return
CopyAndRun_CommandWait ==
    /\ op = "CopyAndRun" /\ pc = "CommandWait"
    /\ cmd = "exited"
    /\ Return(IF cmdStatus = 0 THEN "ok" ELSE "err")
    /\ UNCHANGED <<top, clientVars, op, out, console, streamVars, procVars, fileVars, imageVars, parseVars>>

---------------------------------------------------------------------------
(* CopyAndRun: streaming goroutine *)

\* transferDone <- err: the goroutine blocks until the control task receives
SendErr(e) ==
    /\ errs' = errs \cup {e}
    /\ sPc' = "send"

\* w, err := transferSession.StdinPipe(); defer w.Close().  The started flag
\* is read without synchronisation: after Start the call is rejected, or it
\* misses the flag and hands out a pipe the session has already closed.
Stream_StdinPipe ==
    /\ sPc = "StdinPipe"
    /\ \/ /\ ~started
          /\ stdin' = "open"
          /\ wDefer' = TRUE
          /\ sPc' = "Stat"
          /\ UNCHANGED errs
       \/ /\ started
          /\ SendErr("pipe")
          /\ UNCHANGED <<stdin, wDefer>>
       \/ /\ started
          /\ stdin' = IF stdin = "none" THEN "open" ELSE stdin
          /\ wDefer' = TRUE
          /\ sPc' = "Stat"
          /\ UNCHANGED errs
    /\ UNCHANGED <<top, clientVars, sshVars, broken, done, sig, started, procVars,
                   src, fileSize, off, n, copiedBytes, totalBytes, progress, prints,
                   wire, shorts, imageVars, parseVars>>

\* fileInfo, err := os.Stat(src)
Stream_Stat ==
    /\ sPc = "Stat"
    /\ \/ sPc' = "Header" /\ UNCHANGED errs
       \/ SendErr("stat")
    /\ UNCHANGED <<top, clientVars, sshVars, stdin, wDefer, broken, done, sig, started, procVars,
                   src, fileSize, off, n, copiedBytes, totalBytes, progress, prints,
                   wire, shorts, imageVars, parseVars>>

\* fmt.Fprintf(w, "C0644 %d %s\n", ...): the result is not looked at
Stream_Header ==
    /\ sPc = "Header"
    /\ \E ok \in WriteOutcomes :
          IF ok
          THEN wire' = Append(wire, Header(fileSize, src)) /\ UNCHANGED <<errs, broken>>
          ELSE errs' = errs \cup {"header"} /\ broken' = TRUE /\ UNCHANGED wire
    /\ sPc' = "Open"
    /\ UNCHANGED <<top, clientVars, sshVars, stdin, wDefer, done, sig, started, procVars,
                   src, fileSize, off, n, copiedBytes, totalBytes, progress, prints,
                   shorts, imageVars, parseVars>>

\* f, err := os.Open(src)
Stream_Open ==
    /\ sPc = "Open"
    /\ \/ sPc' = "Fstat" /\ UNCHANGED errs
       \/ SendErr("open")
    /\ UNCHANGED <<top, clientVars, sshVars, stdin, wDefer, broken, done, sig, started, procVars,
                   src, fileSize, off, n, copiedBytes, totalBytes, progress, prints,
                   wire, shorts, imageVars, parseVars>>

\* fileInfo, err = f.Stat(); totalBytes := fileInfo.Size(); var copiedBytes int64
Stream_Fstat ==
    /\ sPc = "Fstat"
    /\ \/ /\ sPc' = "Read"
          /\ totalBytes' = fileSize
          /\ copiedBytes' = 0
          /\ UNCHANGED errs
       \/ /\ SendErr("fstat")
          /\ UNCHANGED <<totalBytes, copiedBytes>>
    /\ UNCHANGED <<top, clientVars, sshVars, stdin, wDefer, broken, done, sig, started, procVars,
                   src, fileSize, off, n, progress, prints,
                   wire, shorts, imageVars, parseVars>>

\* Stream_Read with a read error leaving the loop (break) instead of returning
Stream_Read_BreakOnError ==
    /\ sPc = "Read"
    /\ \/ /\ off < fileSize
          /\ \E k \in ReadCounts :
                /\ n' = k
                /\ off' = off + k
                /\ shorts' = IF k < Min(BufSize, fileSize - off) THEN shorts + 1 ELSE shorts
          /\ sPc' = "Write"
          /\ UNCHANGED errs
       \/ /\ off = fileSize
          /\ n' = 0
          /\ sPc' = "Null"
          /\ UNCHANGED <<off, shorts, errs>>
       \/ /\ n' = 0
          /\ errs' = errs \cup {"read"}
          /\ sPc' = "Null"
          /\ UNCHANGED <<off, shorts>>
    /\ UNCHANGED <<top, clientVars, sshVars, stdin, wDefer, broken, done, sig, started, procVars,
                   src, fileSize, copiedBytes, totalBytes, progress, prints,
                   wire, imageVars, parseVars>>

\* n, err := f.Read(buf) and the two checks of err that follow the write
Stream_Read ==
    /\ sPc = "Read"
    /\ \/ /\ off < fileSize
          /\ \E k \in ReadCounts :
                /\ n' = k
                /\ off' = off + k
                /\ shorts' = IF k < Min(BufSize, fileSize - off) THEN shorts + 1 ELSE shorts
          /\ sPc' = "Write"
          /\ UNCHANGED errs
       \/ /\ off = fileSize
          /\ n' = 0
          /\ sPc' = "Null"
          /\ UNCHANGED <<off, shorts, errs>>
       \/ /\ n' = 0
          /\ SendErr("read")
          /\ UNCHANGED <<off, shorts>>
    /\ UNCHANGED <<top, clientVars, sshVars, stdin, wDefer, broken, done, sig, started, procVars,
                   src, fileSize, copiedBytes, totalBytes, progress, prints,
                   wire, imageVars, parseVars>>

\* Stream_Write with the whole buffer written and counted (buf, len(buf))
Stream_Write_WholeBuffer ==
    /\ sPc = "Write"
    /\ \E ok \in WriteOutcomes :
          IF ok
          THEN /\ wire' = Append(wire, Chunk(off - n, BufSize))
               /\ copiedBytes' = copiedBytes + BufSize
               /\ progress' = Percent(copiedBytes + BufSize, totalBytes)
               /\ prints' = prints + 1
               /\ sPc' = "Read"
               /\ UNCHANGED <<errs, broken>>
          ELSE /\ SendErr("write")
               /\ broken' = TRUE
               /\ UNCHANGED <<wire, copiedBytes, progress, prints>>
    /\ UNCHANGED <<top, clientVars, sshVars, stdin, wDefer, done, sig, started, procVars,
                   src, fileSize, off, n, totalBytes, shorts, imageVars, parseVars>>

\* Stream_Write with the progress line printed for full buffers only
Stream_Write_PrintFullOnly ==
    /\ sPc = "Write"
    /\ \E ok \in WriteOutcomes :
          IF ok
          THEN /\ wire' = Append(wire, Chunk(off - n, n))
               /\ copiedBytes' = copiedBytes + n
               /\ progress' = Percent(copiedBytes + n, totalBytes)
               /\ prints' = IF n = BufSize THEN prints + 1 ELSE prints
               /\ sPc' = "Read"
               /\ UNCHANGED <<errs, broken>>
          ELSE /\ SendErr("write")
               /\ broken' = TRUE
               /\ UNCHANGED <<wire, copiedBytes, progress, prints>>
    /\ UNCHANGED <<top, clientVars, sshVars, stdin, wDefer, done, sig, started, procVars,
                   src, fileSize, off, n, totalBytes, shorts, imageVars, parseVars>>

\* if n > 0 { w.Write(buf[:n]); copiedBytes += n; progress; Printf }
Stream_Write ==
    /\ sPc = "Write"
    /\ \E ok \in WriteOutcomes :
          IF ok
          THEN /\ wire' = Append(wire, Chunk(off - n, n))
               /\ copiedBytes' = copiedBytes + n
               /\ progress' = Percent(copiedBytes + n, totalBytes)
               /\ prints' = prints + 1
               /\ sPc' = "Read"
               /\ UNCHANGED <<errs, broken>>
          ELSE /\ SendErr("write")
               /\ broken' = TRUE
               /\ UNCHANGED <<wire, copiedBytes, progress, prints>>
    /\ UNCHANGED <<top, clientVars, sshVars, stdin, wDefer, done, sig, started, procVars,
                   src, fileSize, off, n, totalBytes, shorts, imageVars, parseVars>>

\* fmt.Fprint(w, "\x00"): the result is not looked at
Stream_Null ==
    /\ sPc = "Null"
    /\ \E ok \in WriteOutcomes :
          IF ok
          THEN wire' = Append(wire, Null) /\ UNCHANGED <<errs, broken>>
          ELSE errs' = errs \cup {"null"} /\ broken' = TRUE /\ UNCHANGED wire
    /\ sPc' = "defer"
    /\ UNCHANGED <<top, clientVars, sshVars, stdin, wDefer, done, sig, started, procVars,
                   src, fileSize, off, n, copiedBytes, totalBytes, progress, prints,
                   shorts, imageVars, parseVars>>

\* the goroutine's deferred calls: f.Close(), w.Close(), close(transferDone)
Stream_Defer ==
    /\ sPc = "defer"
    /\ stdin' = IF wDefer THEN "closed" ELSE stdin
    /\ done' = "closed"
    /\ sPc' = "done"
    /\ UNCHANGED <<top, clientVars, sshVars, wDefer, broken, sig, started, procVars,
                   fileVars, imageVars, parseVars>>

---------------------------------------------------------------------------
(* parseSSHConfig *)

\* A line of the configuration file is a sequence of tokens: words and the
\* whitespace tokens between them.
Lines ==
    { <<>>,
      <<"#Port", " ", "9">>,
      <<"Host", " ", "a">>,
      <<"host", " ", "*">>,
      <<"Host", " ", "b">>,
      <<" ", "Port", " ", "1">>,
      <<"PORT", " ", "2", " ">>,
      <<"User", " ", "u">>,
      <<"HostName", "\t", "h">>,
      <<"IdentityFile", " ", "~/k">>,
      <<"Port">>,
      <<"Foo", " ", "x">> }

Hosts == { <<"a">> }

EmptyConfig == [HostName |-> <<>>, User |-> <<>>, Port |-> <<>>, IdentityFile |-> <<>>]

\* strings.HasPrefix(line, "#")
HasHashPrefix(line) == line # <<>> /\ Head(line) \in {"#", "#Port"}

NotSpace(t) == ~IsSpace(t)

\* strings.Fields
Fields(line) == SelectSeq(line, NotSpace)

\* strings.ToLower on a keyword
ToLower(t) ==
    CASE t \in {"Host", "host", "HOST"} -> "host"
      [] t \in {"HostName", "hostname"} -> "hostname"
      [] t \in {"User", "user"} -> "user"
      [] t \in {"Port", "PORT", "port"} -> "port"
      [] t \in {"IdentityFile", "identityfile"} -> "identityfile"
      [] t = "Foo" -> "foo"
      [] OTHER -> t

RECURSIVE Join(_)
\* strings.Join(fields, " ")
Join(fs) ==
    IF Len(fs) <= 1 THEN fs ELSE <<Head(fs), " ">> \o Join(Tail(fs))

\* a word with its first "~" replaced by $HOME
ExpandWord(t) == IF t = "~/k" THEN "/home/u/k" ELSE t

HasTilde(t) == t \in {"~/k"}

\* strings.Replace(value, "~", os.Getenv("HOME"), 1)
ReplaceTilde(value) ==
    [i \in 1..Len(value) |->
        IF HasTilde(value[i]) /\ \A j \in 1..(i - 1) : ~HasTilde(value[j])
        THEN ExpandWord(value[i]) ELSE value[i]]

\* SetField with the first definition kept (a field is set only while empty)
SetField_FirstWins(c, key, value) ==
    CASE key = "hostname" /\ c.HostName = <<>> -> [c EXCEPT !.HostName = value]
      [] key = "user" /\ c.User = <<>> -> [c EXCEPT !.User = value]
      [] key = "port" /\ c.Port = <<>> -> [c EXCEPT !.Port = value]
      [] key = "identityfile" /\ c.IdentityFile = <<>> ->
             [c EXCEPT !.IdentityFile = ReplaceTilde(value)]
      [] OTHER -> c

\* switch key { case "hostname": ... }
SetField(c, key, value) ==
    CASE key = "hostname" -> [c EXCEPT !.HostName = value]
      [] key = "user" -> [c EXCEPT !.User = value]
      [] key = "port" -> [c EXCEPT !.Port = value]
      [] key = "identityfile" -> [c EXCEPT !.IdentityFile = ReplaceTilde(value)]
      [] OTHER -> c

\* ScanLine without the check of inMatchingHost
ScanLine_NoScope(st, raw, target) ==
    LET line == TrimSpace(raw) IN
    IF line = <<>> \/ HasHashPrefix(line) THEN st
    ELSE LET fields == Fields(line) IN
         IF Len(fields) < 2 THEN st
         ELSE LET key == ToLower(fields[1])
                  value == Join(Tail(fields))
              IN  IF key = "host"
                  THEN [st EXCEPT !.currentHost = value,
                                  !.inMatchingHost = (value = target \/ value = <<"*">>)]
                  ELSE [st EXCEPT !.config = SetField(st.config, key, value)]

\* the body of the scan loop, on the state [currentHost, inMatchingHost, config]
ScanLine(st, raw, target) ==
    LET line == TrimSpace(raw) IN
    IF line = <<>> \/ HasHashPrefix(line) THEN st
    ELSE LET fields == Fields(line) IN
         IF Len(fields) < 2 THEN st
         ELSE LET key == ToLower(fields[1])
                  value == Join(Tail(fields))
              IN  IF key = "host"
                  THEN [st EXCEPT !.currentHost = value,
                                  !.inMatchingHost = (value = target \/ value = <<"*">>)]
                  ELSE IF ~st.inMatchingHost THEN st
                  ELSE [st EXCEPT !.config = SetField(st.config, key, value)]

\* Parse_Missing with the missing file reported as an error
Parse_Missing_AsError ==
    /\ pPc = "Stat"
    /\ pPc' = "returned"
    /\ pErr' = "err"
    /\ pStat' = "missing"
    /\ UNCHANGED <<top, clientVars, sshVars, streamVars, procVars, fileVars, imageVars,
                   cfg, host, idx, currentHost, inMatchingHost, config>>

\* os.Stat(configFile): the file does not exist
Parse_Missing ==
    /\ pPc = "Stat"
    /\ pPc' = "returned"
    /\ pErr' = "nil"
    /\ pStat' = "missing"
    /\ UNCHANGED <<top, clientVars, sshVars, streamVars, procVars, fileVars, imageVars,
                   cfg, host, idx, currentHost, inMatchingHost, config>>

\* os.Open(configFile)
Parse_Open ==
    /\ pPc = "Stat"
    /\ pStat' = "exists"
    /\ \/ /\ pPc' = "Scan"
          /\ UNCHANGED <<pErr, config>>
       \/ /\ pPc' = "returned"
          /\ pErr' = "err"
          /\ config' = <<>>
    /\ UNCHANGED <<top, clientVars, sshVars, streamVars, procVars, fileVars, imageVars,
                   cfg, host, idx, currentHost, inMatchingHost>>

\* for scanner.Scan() { ... }: one line is read and handled
Parse_Scan ==
    /\ pPc = "Scan"
    /\ idx < MaxLines
    /\ \E raw \in Lines :
          LET st == ScanLine([currentHost |-> currentHost,
                              inMatchingHost |-> inMatchingHost,
                              config |-> config], raw, host)
          IN  /\ cfg' = Append(cfg, raw)
              /\ currentHost' = st.currentHost
              /\ inMatchingHost' = st.inMatchingHost
              /\ config' = st.config
    /\ idx' = idx + 1
    /\ UNCHANGED <<top, clientVars, sshVars, streamVars, procVars, fileVars, imageVars,
                   host, pPc, pErr, pStat>>

\* the loop ends: return config, scanner.Err()
Parse_Return ==
    /\ pPc = "Scan"
    /\ pPc' = "returned"
    /\ \E e \in {"nil", "err"} : pErr' = e
    /\ UNCHANGED <<top, clientVars, sshVars, streamVars, procVars, fileVars, imageVars,
                   cfg, host, idx, currentHost, inMatchingHost, config, pStat>>

---------------------------------------------------------------------------
(* NewClient *)

Users == { <<"root">> }

\* values of $SSH_AUTH_SOCK
AgentSocks == { <<>>, <<"/tmp/agent.sock">> }

Home == <<"/home/u">>

\* filepath.Join(os.Getenv("HOME"), ".ssh", name)
DefaultKey(name) == Home \o <<"/", ".ssh", "/", name>>

DefaultKeyPaths == <<DefaultKey("id_rsa"), DefaultKey("id_ecdsa"), DefaultKey("id_ed25519")>>

AgentAuth     == [kind |-> "agent", path |-> <<>>]
KeyAuth(path) == [kind |-> "key", path |-> path]
PasswordAuth  == [kind |-> "password", path |-> <<>>]

\* Effective with the user of the configuration used only when it also names a host
Effective_UserWithHost(c, u, h) ==
    [host |-> IF c.HostName # <<>> THEN c.HostName ELSE h,
     user |-> IF c.HostName # <<>> /\ c.User # <<>> THEN c.User ELSE u,
     port |-> IF c.Port # <<>> THEN c.Port ELSE <<"22">>]

\* effectiveHost, effectiveUser and port
Effective(c, u, h) ==
    [host |-> IF c.HostName # <<>> THEN c.HostName ELSE h,
     user |-> IF c.User # <<>> THEN c.User ELSE u,
     port |-> IF c.Port # <<>> THEN c.Port ELSE <<"22">>]

\* sshConfig, err := parseSSHConfig(host) has returned: the error check and
\* the effective host, user and port.  The scanner and the file of
\* parseSSHConfig are gone.
NewClient_Parsed ==
    /\ top = "NewClient" /\ ncPc = "Parse"
    /\ pPc = "returned"
    /\ \/ /\ pErr = "err"
          /\ ncRet' = "parse"
          /\ ncPc' = "returned"
          /\ UNCHANGED <<effectiveHost, effectiveUser, port>>
       \/ /\ pErr = "nil"
          /\ LET e == Effective(config, user, host) IN
                /\ effectiveHost' = e.host
                /\ effectiveUser' = e.user
                /\ port' = e.port
          /\ ncPc' = "Agent"
          /\ UNCHANGED ncRet
    /\ cfg' = <<>> /\ idx' = 0 /\ currentHost' = <<>> /\ inMatchingHost' = FALSE
    /\ UNCHANGED <<top, sshVars, streamVars, procVars, fileVars, imageVars,
                   host, config, pPc, pErr, pStat,
                   user, agentSock, authMethods, keyPaths, keyIdx, dialAddr, dialUser>>

\* authMethods := []ssh.AuthMethod{}; the agent, when $SSH_AUTH_SOCK is set
\* and the socket can be dialled
NewClient_Agent ==
    /\ top = "NewClient" /\ ncPc = "Agent"
    /\ \E sock \in AgentSocks :
          /\ agentSock' = sock
          /\ \E dialled \in BOOLEAN :
                authMethods' = IF sock # <<>> /\ dialled THEN <<AgentAuth>> ELSE <<>>
    /\ ncPc' = "KeyPaths"
    /\ UNCHANGED <<top, sshVars, streamVars, procVars, fileVars, imageVars, parseVars,
                   user, ncRet, effectiveHost, effectiveUser, port, keyPaths, keyIdx,
                   dialAddr, dialUser>>

\* keyPaths: the three default keys, then the IdentityFile of the configuration
NewClient_KeyPaths ==
    /\ top = "NewClient" /\ ncPc = "KeyPaths"
    /\ keyPaths' = IF config.IdentityFile # <<>>
                   THEN Append(DefaultKeyPaths, config.IdentityFile)
                   ELSE DefaultKeyPaths
    /\ keyIdx' = 0
    /\ ncPc' = "Key"
    /\ UNCHANGED <<top, sshVars, streamVars, procVars, fileVars, imageVars, parseVars,
                   user, agentSock, ncRet, effectiveHost, effectiveUser, port,
                   authMethods, dialAddr, dialUser>>

\* for _, keyPath := range keyPaths: one key is read and parsed
NewClient_Key ==
    /\ top = "NewClient" /\ ncPc = "Key"
    /\ keyIdx < Len(keyPaths)
    /\ \E res \in {"signer", "unreadable", "unparsable"} :
          authMethods' = IF res = "signer"
                         THEN Append(authMethods, KeyAuth(keyPaths[keyIdx + 1]))
                         ELSE authMethods
    /\ keyIdx' = keyIdx + 1
    /\ UNCHANGED <<top, sshVars, streamVars, procVars, fileVars, imageVars, parseVars,
                   user, agentSock, ncPc, ncRet, effectiveHost, effectiveUser, port,
                   keyPaths, dialAddr, dialUser>>

\* NewClient_Password with the password offered only when nothing else was found
NewClient_Password_OnlyIfEmpty ==
    /\ top = "NewClient" /\ ncPc = "Key"
    /\ keyIdx = Len(keyPaths)
    /\ authMethods' = IF authMethods = <<>> THEN <<PasswordAuth>> ELSE authMethods
    /\ ncPc' = "Dial"
    /\ UNCHANGED <<top, sshVars, streamVars, procVars, fileVars, imageVars, parseVars,
                   user, agentSock, ncRet, effectiveHost, effectiveUser, port,
                   keyPaths, keyIdx, dialAddr, dialUser>>

\* authMethods = append(authMethods, ssh.Password(""))
NewClient_Password ==
    /\ top = "NewClient" /\ ncPc = "Key"
    /\ keyIdx = Len(keyPaths)
    /\ authMethods' = Append(authMethods, PasswordAuth)
    /\ ncPc' = "Dial"
    /\ UNCHANGED <<top, sshVars, streamVars, procVars, fileVars, imageVars, parseVars,
                   user, agentSock, ncRet, effectiveHost, effectiveUser, port,
                   keyPaths, keyIdx, dialAddr, dialUser>>

\* ssh.Dial("tcp", effectiveHost+":"+port, config)
NewClient_Dial ==
    /\ top = "NewClient" /\ ncPc = "Dial"
    /\ dialAddr' = effectiveHost \o <<":">> \o port
    /\ dialUser' = effectiveUser
    /\ \E r \in {"ok", "dial"} : ncRet' = r
    /\ ncPc' = "returned"
    /\ UNCHANGED <<top, sshVars, streamVars, procVars, fileVars, imageVars, parseVars,
                   user, agentSock, effectiveHost, effectiveUser, port,
                   authMethods, keyPaths, keyIdx>>

---------------------------------------------------------------------------
(* RunCommand *)

RunCommand_NewClient ==
    /\ op = "RunCommand" /\ pc = "NewClient"
    /\ \/ Connected("NewSession")
       \/ Return("err")
    /\ UNCHANGED <<top, clientVars, op, out, console, streamVars, procVars, fileVars, imageVars, parseVars>>

RunCommand_NewSession ==
    /\ op = "RunCommand" /\ pc = "NewSession"
    /\ \/ SessionOpened("command", "Start")
       \/ Return("err")
    /\ UNCHANGED <<top, clientVars, op, out, console, streamVars, procVars, fileVars, imageVars, parseVars>>

\* session.Stdout = os.Stdout; session.Run(cmd), first half
RunCommand_Start ==
    /\ op = "RunCommand" /\ pc = "Start"
    /\ \/ /\ cmd' = "running"
          /\ pc' = "Wait"
          /\ log' = Append(log, <<"run", "command">>)
          /\ UNCHANGED <<ret, conn, sess, defers>>
       \/ /\ Return("err")
          /\ UNCHANGED cmd
    /\ UNCHANGED <<top, clientVars, op, out, console, streamVars, sink, sinkStatus, cmdStatus,
                   fileVars, imageVars, parseVars>>

\* session.Run(cmd), second half; return "", err  or  return "", nil
RunCommand_Wait ==
    /\ op = "RunCommand" /\ pc = "Wait"
    /\ cmd = "exited"
    /\ out' = <<>>
    /\ Return(IF cmdStatus = 0 THEN "ok" ELSE "err")
    /\ UNCHANGED <<top, clientVars, op, console, streamVars, procVars, fileVars, imageVars, parseVars>>

---------------------------------------------------------------------------
(* TransferFile: control task *)

TransferFile_NewClient ==
    /\ op = "TransferFile" /\ pc = "NewClient"
    /\ \/ Connected("NewSession")
       \/ Return("err")
    /\ UNCHANGED <<top, clientVars, op, out, console, streamVars, procVars, fileVars, imageVars, parseVars>>

TransferFile_NewSession ==
    /\ op = "TransferFile" /\ pc = "NewSession"
    /\ \/ SessionOpened("transfer", "go")
       \/ Return("err")
    /\ UNCHANGED <<top, clientVars, op, out, console, streamVars, procVars, fileVars, imageVars, parseVars>>

TransferFile_Go ==
    /\ op = "TransferFile" /\ pc = "go"
    /\ pc' = "Start"
    /\ sPc' = "tfStdinPipe"
    /\ UNCHANGED <<top, clientVars, op, ret, out, console, conn, sess, defers, log,
                   stdin, wDefer, broken, done, sig, started,
                   procVars, fileVars, imageVars, parseVars>>

\* session.Run("/usr/bin/scp -qt dest"), first half
TransferFile_Start ==
    /\ op = "TransferFile" /\ pc = "Start"
    /\ started' = TRUE
    /\ \/ /\ sink' = "running"
          /\ stdin' = IF stdin = "none" THEN "closed" ELSE stdin
          /\ pc' = "Wait"
          /\ log' = Append(log, <<"run", "transfer">>)
          /\ UNCHANGED <<ret, conn, sess, defers>>
       \/ /\ Return("err")
          /\ UNCHANGED <<sink, stdin>>
    /\ UNCHANGED <<top, clientVars, op, out, console, sPc, wDefer, broken, done, sig,
                   sinkStatus, cmd, cmdStatus, fileVars, imageVars, parseVars>>

\* session.Run, second half, and the return
TransferFile_Wait ==
    /\ op = "TransferFile" /\ pc = "Wait"
    /\ sink = "exited"
    /\ Return(IF sinkStatus = 0 THEN "ok" ELSE "err")
    /\ UNCHANGED <<top, clientVars, op, out, console, streamVars, procVars, fileVars, imageVars, parseVars>>

---------------------------------------------------------------------------
(* TransferFile: copying goroutine *)

\* w, _ := session.StdinPipe(); defer w.Close().  A rejected StdinPipe leaves
\* w nil, and the deferred method value of a nil interface panics: the
\* process dies.
Copy_StdinPipe ==
    /\ sPc = "tfStdinPipe"
    /\ \/ /\ ~started
          /\ stdin' = "open"
          /\ wDefer' = TRUE
          /\ sPc' = "tfOpen"
          /\ UNCHANGED pc
       \/ /\ started
          /\ sPc' = "panic"
          /\ pc' = "crashed"
          /\ UNCHANGED <<stdin, wDefer>>
       \/ /\ started
          /\ stdin' = IF stdin = "none" THEN "open" ELSE stdin
          /\ wDefer' = TRUE
          /\ sPc' = "tfOpen"
          /\ UNCHANGED pc
    /\ UNCHANGED <<top, clientVars, op, ret, out, console, conn, sess, defers, log,
                   broken, done, sig, started, procVars, fileVars, imageVars, parseVars>>

\* f, _ := os.Open(src); defer f.Close().  After a failed Open f is nil and
\* io.Copy's first read fails.
Copy_Open ==
    /\ sPc = "tfOpen"
    /\ \/ sPc' = "tfRead" /\ UNCHANGED errs
       \/ sPc' = "tfDefer" /\ errs' = errs \cup {"open"}
    /\ UNCHANGED <<top, clientVars, sshVars, stdin, wDefer, broken, done, sig, started, procVars,
                   src, fileSize, off, n, copiedBytes, totalBytes, progress, prints,
                   wire, shorts, imageVars, parseVars>>

\* io.Copy(w, f): a read of the source; the result of io.Copy is dropped
Copy_Read ==
    /\ sPc = "tfRead"
    /\ \/ /\ off < fileSize
          /\ \E k \in ReadCounts :
                /\ n' = k
                /\ off' = off + k
                /\ shorts' = IF k < Min(BufSize, fileSize - off) THEN shorts + 1 ELSE shorts
          /\ sPc' = "tfWrite"
          /\ UNCHANGED errs
       \/ /\ off = fileSize
          /\ n' = 0
          /\ sPc' = "tfDefer"
          /\ UNCHANGED <<off, shorts, errs>>
       \/ /\ n' = 0
          /\ sPc' = "tfDefer"
          /\ errs' = errs \cup {"read"}
          /\ UNCHANGED <<off, shorts>>
    /\ UNCHANGED <<top, clientVars, sshVars, stdin, wDefer, broken, done, sig, started, procVars,
                   src, fileSize, copiedBytes, totalBytes, progress, prints,
                   wire, imageVars, parseVars>>

\* io.Copy(w, f): a write to the input stream
Copy_Write ==
    /\ sPc = "tfWrite"
    /\ \E ok \in WriteOutcomes :
          IF ok
          THEN /\ wire' = Append(wire, Chunk(off - n, n))
               /\ sPc' = "tfRead"
               /\ UNCHANGED <<errs, broken>>
          ELSE /\ errs' = errs \cup {"write"}
               /\ sPc' = "tfDefer"
               /\ broken' = TRUE
               /\ UNCHANGED wire
    /\ UNCHANGED <<top, clientVars, sshVars, stdin, wDefer, done, sig, started, procVars,
                   src, fileSize, off, n, copiedBytes, totalBytes, progress, prints,
                   shorts, imageVars, parseVars>>

\* the deferred f.Close() and w.Close()
Copy_Defer ==
    /\ sPc = "tfDefer"
    /\ stdin' = "closed"
    /\ sPc' = "done"
    /\ UNCHANGED <<top, clientVars, sshVars, wDefer, broken, done, sig, started, procVars,
                   fileVars, imageVars, parseVars>>

---------------------------------------------------------------------------
(* internal/transfer *)

\* fmt.Sprintf("/tmp/%s.tar", strings.ReplaceAll(imageName, "/", "_"))
TmpFile(image) == <<"/", "tmp", "/">> \o ReplaceAll(image, "/", "_") \o <<".tar">>

\* ssh.RunCommand: the output handed back to checkRemoteImage
checkRemoteImage(output, err) ==
    IF err # "ok" THEN [exists |-> FALSE, err |-> "err"]
    ELSE [exists |-> TrimSpace(output) # <<>>, err |-> "ok"]

\* the state a pkg/ssh call starts from
CallSsh(name) ==
    /\ op' = name /\ pc' = "NewClient"
    /\ ret' = "none" /\ out' = <<>> /\ console' = <<>>
    /\ conn' = "none" /\ sess' = [r \in {"transfer", "command"} |-> "none"]
    /\ defers' = <<>> /\ log' = <<>>
    /\ sPc' = "idle" /\ stdin' = "none" /\ wDefer' = FALSE /\ broken' = FALSE
    /\ done' = "none" /\ sig' = "none" /\ started' = FALSE
    /\ sink' = "none" /\ sinkStatus' = 0 /\ cmd' = "none" /\ cmdStatus' = 0
    /\ off' = 0 /\ n' = 0 /\ copiedBytes' = 0 /\ totalBytes' = 0
    /\ progress' = -1 /\ prints' = 0 /\ wire' = <<>> /\ errs' = {} /\ shorts' = 0
    /\ calls' = Append(calls, name)

\* parts := strings.Split(remoteServer, "@"); if len(parts) != 2 { return err }
TransferImage_Split ==
    /\ top = "TransferImage" /\ tiPc = "Split"
    /\ \/ /\ Len(Split(remoteServer, "@")) # 2
          /\ tiPc' = "returned"
          /\ tiRet' = "err"
       \/ /\ Len(Split(remoteServer, "@")) = 2
          /\ tiPc' = "Check"
          /\ UNCHANGED tiRet
    /\ UNCHANGED <<top, clientVars, sshVars, streamVars, procVars, fileVars,
                   remoteServer, imageName, imagePresent, pulled, archive, calls, parseVars>>

\* exists, err := checkRemoteImage(imageName, user, host): the call of RunCommand
TransferImage_Check ==
    /\ top = "TransferImage" /\ tiPc = "Check"
    /\ CallSsh("RunCommand")
    /\ tiPc' = "Checked"
    /\ UNCHANGED <<top, clientVars, src, fileSize, tiRet, remoteServer, imageName, imagePresent,
                   pulled, archive, parseVars>>

\* the rest of checkRemoteImage and the two checks of its result
TransferImage_Checked ==
    /\ top = "TransferImage" /\ tiPc = "Checked"
    /\ op = "RunCommand" /\ pc = "returned"
    /\ LET r == checkRemoteImage(out, ret) IN
         \/ /\ r.err # "ok"
            /\ tiPc' = "returned"
            /\ tiRet' = "err"
         \/ /\ r.err = "ok" /\ r.exists
            /\ tiPc' = "returned"
            /\ tiRet' = "ok"
         \/ /\ r.err = "ok" /\ ~r.exists
            /\ tiPc' = "Pull"
            /\ UNCHANGED tiRet
    /\ UNCHANGED <<top, clientVars, sshVars, streamVars, procVars, fileVars,
                   remoteServer, imageName, imagePresent, pulled, archive, calls, parseVars>>

\* pullLocalImage(imageName)
TransferImage_Pull ==
    /\ top = "TransferImage" /\ tiPc = "Pull"
    /\ pulled' = TRUE
    /\ \/ tiPc' = "Save" /\ UNCHANGED tiRet
       \/ tiPc' = "returned" /\ tiRet' = "err"
    /\ UNCHANGED <<top, clientVars, sshVars, streamVars, procVars, fileVars,
                   remoteServer, imageName, imagePresent, archive, calls, parseVars>>

\* transferImage: docker save -o tmpFile; defer rm -f tmpFile
transferImage_Save ==
    /\ top = "TransferImage" /\ tiPc = "Save"
    /\ \/ /\ archive' = "present"
          /\ src' = TmpFile(imageName)
          /\ tiPc' = "Stat"
          /\ UNCHANGED tiRet
       \/ /\ tiPc' = "returned"
          /\ tiRet' = "err"
          /\ UNCHANGED <<archive, src>>
    /\ UNCHANGED <<top, clientVars, sshVars, streamVars, procVars,
                   fileSize, off, n, copiedBytes, totalBytes, progress, prints, wire,
                   errs, shorts,
                   remoteServer, imageName, imagePresent, pulled, calls, parseVars>>

\* transferImage: os.Stat(tmpFile); on failure return through the deferred rm
transferImage_Stat ==
    /\ top = "TransferImage" /\ tiPc = "Stat"
    /\ \/ /\ tiPc' = "Copy"
          /\ UNCHANGED <<tiRet, archive>>
       \/ /\ tiPc' = "returned"
          /\ tiRet' = "err"
          /\ archive' = "removed"
    /\ UNCHANGED <<top, clientVars, sshVars, streamVars, procVars, fileVars,
                   remoteServer, imageName, imagePresent, pulled, calls, parseVars>>

\* transferImage_Copy with the archive removed at once instead of by a defer
transferImage_Copy_RemovesFirst ==
    /\ top = "TransferImage" /\ tiPc = "Copy"
    /\ CallSsh("CopyAndRun")
    /\ tiPc' = "Copied"
    /\ archive' = "removed"
    /\ UNCHANGED <<top, clientVars, src, fileSize, tiRet, remoteServer, imageName, imagePresent,
                   pulled, parseVars>>

\* transferImage: the call of ssh.CopyAndRun(tmpFile, "docker load -i ...")
transferImage_Copy ==
    /\ top = "TransferImage" /\ tiPc = "Copy"
    /\ CallSsh("CopyAndRun")
    /\ tiPc' = "Copied"
    /\ UNCHANGED <<top, clientVars, src, fileSize, tiRet, remoteServer, imageName, imagePresent,
                   pulled, archive, parseVars>>

\* transferImage: the check of CopyAndRun's result, and the deferred rm
transferImage_Copied ==
    /\ top = "TransferImage" /\ tiPc = "Copied"
    /\ op = "CopyAndRun" /\ pc = "returned"
    /\ tiPc' = "returned"
    /\ tiRet' = ret
    /\ archive' = "removed"
    /\ UNCHANGED <<top, clientVars, sshVars, streamVars, procVars, fileVars,
                   remoteServer, imageName, imagePresent, pulled, calls, parseVars>>

---------------------------------------------------------------------------

ParseIdle ==
    /\ cfg = <<>> /\ host = <<>> /\ idx = 0 /\ currentHost = <<>>
    /\ inMatchingHost = FALSE /\ config = EmptyConfig /\ pPc = "idle" /\ pErr = "none"
    /\ pStat = "none"

ClientIdle ==
    /\ user = <<>> /\ agentSock = <<>> /\ ncPc = "idle" /\ ncRet = "none"
    /\ effectiveHost = <<>> /\ effectiveUser = <<>> /\ port = <<>>
    /\ authMethods = <<>> /\ keyPaths = <<>> /\ keyIdx = 0
    /\ dialAddr = <<>> /\ dialUser = <<>>

SshIdle ==
    /\ ret = "none" /\ out = <<>> /\ console = <<>>
    /\ conn = "none" /\ sess = [r \in {"transfer", "command"} |-> "none"]
    /\ defers = <<>> /\ log = <<>>
    /\ sPc = "idle" /\ stdin = "none" /\ wDefer = FALSE /\ broken = FALSE
    /\ done = "none" /\ sig = "none" /\ started = FALSE
    /\ sink = "none" /\ sinkStatus = 0 /\ cmd = "none" /\ cmdStatus = 0
    /\ off = 0 /\ n = 0 /\ copiedBytes = 0 /\ totalBytes = 0
    /\ progress = -1 /\ prints = 0 /\ wire = <<>> /\ errs = {} /\ shorts = 0

RemoteServers ==
    { <<"user", "@", "host">>, <<"host">>, <<"user", "@", "host", "@", "x">> }

ImageNames == { <<"nginx">>, <<"lib", "/", "nginx">> }

InitSsh ==
    /\ top \in {"RunCommand", "TransferFile", "CopyAndRun"}
    /\ op = top
    /\ pc = "NewClient"
    /\ src \in Paths
    /\ fileSize \in (IF top = "RunCommand" THEN {0} ELSE FileSizes)
    /\ imagePresent \in (IF top = "RunCommand" THEN BOOLEAN ELSE {FALSE})
    /\ tiPc = "idle" /\ remoteServer = <<>> /\ imageName = <<>>

InitImage ==
    /\ top = "TransferImage"
    /\ op = "none"
    /\ pc = "idle"
    /\ src = <<>>
    /\ fileSize \in FileSizes
    /\ imagePresent \in BOOLEAN
    /\ tiPc = "Split"
    /\ remoteServer \in RemoteServers
    /\ imageName \in ImageNames

Init ==
    /\ InitSsh \/ InitImage
    /\ SshIdle
    /\ tiRet = "none" /\ pulled = FALSE /\ archive = "none" /\ calls = <<>>
    /\ ParseIdle
    /\ ClientIdle

Next ==
    \/ Stream_StdinPipe
    \/ Stream_Stat
    \/ Stream_Header
    \/ Stream_Open
    \/ Stream_Fstat
    \/ Stream_Read
    \/ Stream_Write
    \/ Stream_Null
    \/ Stream_Defer
    \/ Copy_StdinPipe
    \/ Copy_Open
    \/ Copy_Read
    \/ Copy_Write
    \/ Copy_Defer
    \/ SinkExit
    \/ CommandExit
    \/ CopyAndRun_NewClient
    \/ CopyAndRun_NewSession
    \/ CopyAndRun_Go
    \/ CopyAndRun_Start
    \/ CopyAndRun_Wait
    \/ CopyAndRun_Recv
    \/ CopyAndRun_CommandSession
    \/ CopyAndRun_CommandStart
    \/ CopyAndRun_CommandWait
    \/ RunCommand_NewClient
    \/ RunCommand_NewSession
    \/ RunCommand_Start
    \/ RunCommand_Wait
    \/ TransferFile_NewClient
    \/ TransferFile_NewSession
    \/ TransferFile_Go
    \/ TransferFile_Start
    \/ TransferFile_Wait
    \/ TransferImage_Split
    \/ TransferImage_Check
    \/ TransferImage_Checked
    \/ TransferImage_Pull
    \/ transferImage_Save
    \/ transferImage_Stat
    \/ transferImage_Copy
    \/ transferImage_Copied

Spec == Init /\ [][Next]_vars

InitParse ==
    /\ top = "parseSSHConfig"
    /\ op = "none" /\ pc = "idle"
    /\ SshIdle
    /\ src = <<>> /\ fileSize = 0 /\ imagePresent = FALSE
    /\ tiPc = "idle" /\ remoteServer = <<>> /\ imageName = <<>>
    /\ tiRet = "none" /\ pulled = FALSE /\ archive = "none" /\ calls = <<>>
    /\ cfg = <<>> /\ host \in Hosts /\ idx = 0 /\ currentHost = <<>>
    /\ inMatchingHost = FALSE /\ config = EmptyConfig /\ pPc = "Stat" /\ pErr = "none"
    /\ pStat = "none"
    /\ ClientIdle

NextParse ==
    \/ Parse_Missing
    \/ Parse_Open
    \/ Parse_Scan
    \/ Parse_Return

SpecParse == InitParse /\ [][NextParse]_vars

InitConnect ==
    /\ top = "NewClient"
    /\ op = "none" /\ pc = "idle"
    /\ SshIdle
    /\ src = <<>> /\ fileSize = 0 /\ imagePresent = FALSE
    /\ tiPc = "idle" /\ remoteServer = <<>> /\ imageName = <<>>
    /\ tiRet = "none" /\ pulled = FALSE /\ archive = "none" /\ calls = <<>>
    /\ cfg = <<>> /\ host \in Hosts /\ idx = 0 /\ currentHost = <<>>
    /\ inMatchingHost = FALSE /\ config = EmptyConfig /\ pPc = "Stat" /\ pErr = "none"
    /\ pStat = "none"
    /\ user \in Users /\ agentSock = <<>> /\ ncPc = "Parse" /\ ncRet = "none"
    /\ effectiveHost = <<>> /\ effectiveUser = <<>> /\ port = <<>>
    /\ authMethods = <<>> /\ keyPaths = <<>> /\ keyIdx = 0
    /\ dialAddr = <<>> /\ dialUser = <<>>

NextConnect ==
    \/ Parse_Missing
    \/ Parse_Open
    \/ Parse_Scan
    \/ Parse_Return
    \/ NewClient_Parsed
    \/ NewClient_Agent
    \/ NewClient_KeyPaths
    \/ NewClient_Key
    \/ NewClient_Password
    \/ NewClient_Dial

SpecConnect == InitConnect /\ [][NextConnect]_vars

---------------------------------------------------------------------------
(* Properties of CopyAndRun *)

\* the errors the streaming goroutine reports on transferDone
SentErrs == {"pipe", "stat", "open", "fstat", "read", "write"}

InCopyAndRun == op = "CopyAndRun"

\* the streaming goroutine ran to its end and reported no error
StreamCompleted == sPc = "done" /\ done = "closed" /\ errs \cap SentErrs = {}

RECURSIVE ChunkSum(_)
\* the payload bytes on the wire
ChunkSum(w) ==
    IF w = <<>> THEN 0
    ELSE (IF Head(w).kind = "D" THEN Head(w).size ELSE 0) + ChunkSum(Tail(w))

\* C1: in CopyAndRun the command Session is opened and remoteCommand is
\* started only after the sink has exited with status zero and the streaming
\* goroutine has signalled completion without an error.
C1_CommandOnlyAfterTransfer ==
    (InCopyAndRun /\ (sess["command"] # "none" \/ cmd # "none"))
        => /\ sink = "exited" /\ sinkStatus = 0
           /\ sig = "nil"
           /\ StreamCompleted

C1_Witness ==
    /\ InCopyAndRun /\ cmd = "running" /\ sess["command"] = "open"
    /\ Len(wire) >= 3 /\ wire[Len(wire)] = Null

\* C2: every error on the local streaming side (stat, open, read, or a failed
\* write of the header, a chunk or the null byte) makes CopyAndRun fail: no
\* success is returned and the command is not run.
C2_LocalErrorIsFailure ==
    (InCopyAndRun /\ errs # {})
        => /\ ret # "ok"
           /\ sess["command"] = "none"
           /\ cmd = "none"

C4_AllClosedAtReturn ==
    pc = "returned"
        => /\ conn \in {"none", "closed"}
           /\ \A r \in DOMAIN sess : sess[r] \in {"none", "closed"}

C4_Witness ==
    /\ InCopyAndRun /\ pc = "returned" /\ ret = "err"
    /\ conn = "closed" /\ sess["transfer"] = "closed" /\ sess["command"] = "closed"

\* C5: when CopyAndRun has returned, the streaming goroutine has terminated:
\* it is neither still running nor blocked on transferDone.
C5_JoinedAtReturn ==
    (InCopyAndRun /\ pc = "returned" /\ sPc # "idle")
        => sPc \in {"done", "defer"}

\* C6: the input stream carries a prefix of: one header (mode 0644, the file
\* size, the base name), the chunks in file order, one null byte.  The null
\* byte comes only after the whole payload and never after a failed read or
\* chunk write, and a goroutine that ends without any error has written the
\* whole sequence.
C6_WireOrder ==
    InCopyAndRun =>
        /\ \A i \in 1..Len(wire) :
              /\ (i = 1) <=> (wire[i].kind = "C")
              /\ wire[i].kind = "C" =>
                    /\ wire[i].mode = "0644"
                    /\ wire[i].size = fileSize
                    /\ wire[i].name # <<>>
                    /\ Count(wire[i].name, "/") = 0
                    /\ wire[i].name = SubSeq(src, Len(src) - Len(wire[i].name) + 1, Len(src))
                    /\ Len(wire[i].name) < Len(src) =>
                           src[Len(src) - Len(wire[i].name)] = "/"
              /\ wire[i].kind = "D" =>
                    /\ wire[i].size \in 1..BufSize
                    /\ wire[i].off = ChunkSum(SubSeq(wire, 1, i - 1))
                    /\ wire[i].off + wire[i].size <= fileSize
              /\ wire[i].kind = "Z" =>
                    /\ i = Len(wire)
                    /\ ChunkSum(wire) = fileSize
                    /\ errs \cap {"read", "write"} = {}
        /\ (sPc = "done" /\ errs = {}) =>
              /\ Len(wire) >= 2
              /\ wire[Len(wire)] = Null
              /\ ChunkSum(wire) = fileSize

C6_Witness ==
    /\ InCopyAndRun /\ sPc = "done" /\ errs = {}
    /\ Len(wire) >= 4 /\ wire[Len(wire)] = Null /\ Len(src) > 1

\* a transfer in which nothing failed
FullySuccessful ==
    /\ InCopyAndRun /\ sPc = "done" /\ errs = {}
    /\ sink = "exited" /\ sinkStatus = 0 /\ sig = "nil"

\* C7 as stated: for every source file the chunk bytes add up to the size in
\* the header and the final computed percentage is 100.00.
C7_Original ==
    FullySuccessful
        => /\ ChunkSum(wire) = wire[1].size
           /\ progress = 10000

\* C7 amended: the chunk bytes add up to the size in the header; for a
\* non-empty file the final percentage is 100.00, and for an empty file no
\* percentage is computed or printed.
C7_SumAndProgress ==
    FullySuccessful
        => /\ ChunkSum(wire) = wire[1].size
           /\ copiedBytes = totalBytes
           /\ fileSize > 0 => (progress = 10000 /\ prints >= 1)
           /\ fileSize = 0 => (progress = -1 /\ prints = 0)

C7_Witness ==
    /\ FullySuccessful /\ fileSize > BufSize /\ shorts > 0
    /\ progress = 10000 /\ prints >= 3

---------------------------------------------------------------------------
(* Properties of TransferImage and TransferFile *)

\* C8: when the remote "docker images -q" succeeds and reports the image,
\* TransferImage returns success without pulling, exporting or copying.
C8_SkipWhenPresent ==
    (/\ top = "TransferImage"
     /\ op = "RunCommand" /\ pc = "returned" /\ ret = "ok"
     /\ TrimSpace(console) # <<>>)
        => /\ ~pulled
           /\ archive = "none"
           /\ tiPc \in {"Checked", "returned"}
           /\ tiPc = "returned" => tiRet = "ok"

\* C9: TransferFile never returns success when opening or reading the source
\* or writing to the input stream failed.
C9_TransferFileFailure ==
    [][(op = "TransferFile" /\ pc # "returned" /\ pc' = "returned" /\ errs # {})
          => ret' = "err"]_vars

---------------------------------------------------------------------------
(* Properties of parseSSHConfig *)

\* line i of the file carries a keyword and a value
IsKV(i) ==
    LET line == TrimSpace(cfg[i]) IN
    line # <<>> /\ ~HasHashPrefix(line) /\ Len(Fields(line)) >= 2

KeyOf(i) == ToLower(Fields(TrimSpace(cfg[i]))[1])

ValOf(i) == Join(Tail(Fields(TrimSpace(cfg[i]))))

MaxOf(S) == CHOOSE m \in S : \A x \in S : x <= m

\* the Host line whose block line i belongs to, 0 before the first Host line
BlockOf(i) ==
    LET hs == {j \in 1..(i - 1) : IsKV(j) /\ KeyOf(j) = "host"}
    IN  IF hs = {} THEN 0 ELSE MaxOf(hs)

\* the lines defining Port inside a block whose Host value is v
PortDefs(v) ==
    {i \in 1..Len(cfg) :
        /\ IsKV(i) /\ KeyOf(i) = "port"
        /\ BlockOf(i) # 0 /\ ValOf(BlockOf(i)) = v}

ParsedWhole == pPc = "returned" /\ pErr = "nil" /\ cfg # <<>>

BothDefinePort == PortDefs(host) # {} /\ PortDefs(<<"*">>) # {}

\* C10 as stated: with a Host * block and a Host alias block both defining
\* Port, the alias block's value is the result whatever the block order.
C10_Original ==
    (ParsedWhole /\ BothDefinePort)
        => config.Port \in {ValOf(i) : i \in PortDefs(host)}

\* C10 amended: with both blocks defining Port, the result is the value of
\* the definition that comes last in the file: the alias block's value when
\* its definition follows the wildcard's, the wildcard's value otherwise.
C10_LastDefinitionWins ==
    (ParsedWhole /\ BothDefinePort)
        => config.Port = ValOf(MaxOf(PortDefs(host) \cup PortDefs(<<"*">>)))

C10_Witness ==
    /\ ParsedWhole /\ BothDefinePort
    /\ MaxOf(PortDefs(host)) < MaxOf(PortDefs(<<"*">>))
    /\ config.Port = ValOf(MaxOf(PortDefs(<<"*">>)))
    /\ config.Port # ValOf(MaxOf(PortDefs(host)))

\* the field a recognized keyword stands for
FieldOf(key) ==
    CASE key = "hostname" -> "HostName"
      [] key = "user" -> "User"
      [] key = "port" -> "Port"
      [] key = "identityfile" -> "IdentityFile"
      [] OTHER -> "none"

\* a line that carries a keyword and a value
LineIsKV(raw) ==
    LET line == TrimSpace(raw) IN
    line # <<>> /\ ~HasHashPrefix(line) /\ Len(Fields(line)) >= 2

LineKey(raw) == ToLower(Fields(TrimSpace(raw))[1])

\* a line whose keyword is HostName, User, Port or IdentityFile
Recognized(raw) == LineIsKV(raw) /\ FieldOf(LineKey(raw)) # "none"

\* line i lies in a Host block whose value is the target alias or "*"
InActiveScope(i) == BlockOf(i) # 0 /\ ValOf(BlockOf(i)) \in {host, <<"*">>}

\* the fields a line may change when it is scanned as line i
MayChange(raw, i) ==
    IF Recognized(raw) /\ InActiveScope(i) THEN {FieldOf(LineKey(raw))} ELSE {}

\* C18: a step of the scan loop leaves the configuration unchanged unless the
\* line is a recognized keyword (HostName, User, Port, IdentityFile) inside an
\* active scope, and then it changes no field but the keyword's own.
C18_ScanFrame ==
    [][(pPc = "Scan" /\ Len(cfg') = Len(cfg) + 1)
          => \A f \in DOMAIN config \ MayChange(cfg'[Len(cfg) + 1], Len(cfg) + 1) :
                 config'[f] = config[f]]_vars

\* a Port line before the first Host line, one in the alias block and one in
\* another host's block: only the second one counted
C18_Witness ==
    /\ pPc = "Scan" /\ host = <<"a">>
    /\ cfg = << <<"PORT", " ", "2", " ">>, <<"Host", " ", "a">>,
                <<" ", "Port", " ", "1">>, <<"Host", " ", "b">> >>
    /\ config = [EmptyConfig EXCEPT !.Port = <<"1">>]

---------------------------------------------------------------------------
(* Properties of NewClient *)

\* the chain is complete: NewClient is about to dial or has dialled
ChainBuilt == top = "NewClient" /\ (ncPc = "Dial" \/ (ncPc = "returned" /\ ncRet # "parse"))

\* the candidate key files in the order they are tried
Candidates ==
    DefaultKeyPaths \o (IF config.IdentityFile # <<>> THEN <<config.IdentityFile>> ELSE <<>>)

\* position of a key file among the candidates
CandidateIndex(path) == CHOOSE i \in 1..Len(Candidates) : Candidates[i] = path

Positions(kind) == {i \in 1..Len(authMethods) : authMethods[i].kind = kind}

\* C11: the chain is never empty and ends with exactly one empty-password
\* strategy; an agent strategy, when present, is first; the key strategies lie
\* between them in candidate order (three default keys, then IdentityFile).
C11_AuthChainShape ==
    ChainBuilt =>
        /\ authMethods # <<>>
        /\ Positions("password") = {Len(authMethods)}
        /\ Positions("agent") \subseteq {1}
        /\ Positions("agent") \cup Positions("key") \cup Positions("password")
               = 1..Len(authMethods)
        /\ Positions("agent") # {} => agentSock # <<>>
        /\ \A i \in Positions("key") :
              /\ \E j \in 1..Len(Candidates) : Candidates[j] = authMethods[i].path
              /\ \A k \in Positions("key") :
                    i < k => CandidateIndex(authMethods[i].path)
                                 < CandidateIndex(authMethods[k].path)

C11_Witness ==
    /\ ChainBuilt
    /\ Len(authMethods) = 4
    /\ authMethods[1].kind = "agent"
    /\ authMethods[2] = KeyAuth(DefaultKey("id_ecdsa"))
    /\ authMethods[3].kind = "key" /\ authMethods[3].path = config.IdentityFile
    /\ authMethods[4].kind = "password"

\* C12: for a missing configuration file parseSSHConfig returns a zero-valued
\* sshConfig and no error, and NewClient goes on to dial the caller's host
\* alias on port 22 as the caller's user; it never stops at the parse error.
C12_MissingConfigFile ==
    /\ (pStat = "missing" /\ pPc = "returned")
          => (config = EmptyConfig /\ pErr = "nil")
    /\ (top = "NewClient" /\ pStat = "missing" /\ ncPc # "Parse")
          => /\ ncRet # "parse"
             /\ effectiveHost = host /\ effectiveUser = user /\ port = <<"22">>
    /\ (top = "NewClient" /\ pStat = "missing" /\ ncPc = "returned")
          => /\ dialAddr = host \o <<":", "22">>
             /\ dialUser = user

C12_Witness ==
    /\ top = "NewClient" /\ pStat = "missing" /\ ncPc = "returned" /\ ncRet = "ok"
    /\ dialAddr = <<"a", ":", "22">> /\ dialUser = <<"root">>

\* C13: NewClient dials H:P as U, where H is the HostName of the
\* configuration if set and the host argument otherwise, U its User if set
\* and the user argument otherwise, P its Port if set and "22" otherwise.
C13_DialTarget ==
    (top = "NewClient" /\ ncPc = "returned" /\ ncRet # "parse")
        => /\ dialAddr = (IF config.HostName = <<>> THEN host ELSE config.HostName)
                             \o <<":">>
                             \o (IF config.Port = <<>> THEN <<"22">> ELSE config.Port)
           /\ dialUser = (IF config.User = <<>> THEN user ELSE config.User)

C13_Witness ==
    /\ top = "NewClient" /\ ncPc = "returned" /\ ncRet = "ok"
    /\ config.HostName = <<>> /\ config.User = <<"u">> /\ config.Port = <<"2">>
    /\ dialAddr = <<"a", ":", "2">> /\ dialUser = <<"u">>

---------------------------------------------------------------------------
(* Scheduling of CopyAndRun *)

\* the sink has been started and has not been given the whole wire sequence
SinkWaitsForInput ==
    /\ sink = "running"
    /\ stdin = "open"
    /\ (wire = <<>> \/ wire[Len(wire)] # Null)

\* C14: CopyAndRun never reaches a state in which the control task waits for
\* the sink to exit, the sink waits for more input or end-of-input, and the
\* streaming goroutine is blocked sending an error on transferDone before its
\* deferred w.Close() has run.
C14_NoBlockedSendBeforeClose ==
    ~ (/\ InCopyAndRun /\ pc = "Wait"
       /\ SinkWaitsForInput
       /\ sPc = "send" /\ wDefer)

\* the sink exited with status zero, no file operation failed and no write
\* was rejected
BenignRun ==
    /\ InCopyAndRun /\ pc = "returned"
    /\ sink = "exited" /\ sinkStatus = 0
    /\ errs \subseteq {"pipe"}

\* C15: in every interleaving of the control task and the streaming goroutine
\* a benign run delivers header, payload and null byte and gets past the wait
\* on transferDone to the command, also when Session.Start runs before
\* StdinPipe.
C15_ScheduleIndependent ==
    BenignRun
        => /\ "pipe" \notin errs
           /\ wire # <<>> /\ wire[Len(wire)] = Null /\ ChunkSum(wire) = fileSize
           /\ sig = "nil"

---------------------------------------------------------------------------
(* Chunking *)

\* the payload writes that reached the input stream
PayloadWrites == {i \in 1..Len(wire) : wire[i].kind = "D"}

\* ceil(a / b)
CeilDiv(a, b) == (a + b - 1) \div b

\* the read loop ended at end-of-file and every read before it filled the
\* buffer as far as the file allowed
LoopEndedFullReads ==
    /\ InCopyAndRun /\ sPc \in {"Null", "defer", "done"}
    /\ errs \cap SentErrs = {}
    /\ shorts = 0

\* C16: a file of N bytes read in full buffers of C = BufSize bytes is sent in
\* exactly ceil(N/C) payload writes of at most C bytes each, with one progress
\* line per write and the last one at 100.00%; for 0 < N <= C that is one
\* write and one line.
C16_ChunkCount ==
    /\ InCopyAndRun =>
          /\ prints = Cardinality(PayloadWrites)
          /\ \A i \in PayloadWrites : wire[i].size <= BufSize
    /\ LoopEndedFullReads =>
          /\ prints = CeilDiv(fileSize, BufSize)
          /\ prints > 0 => progress = 10000
          /\ (0 < fileSize /\ fileSize <= BufSize) => prints = 1

C16_Witness ==
    /\ LoopEndedFullReads /\ sPc = "done"
    /\ fileSize = 100 /\ prints = 1 /\ progress = 10000
    /\ wire = <<Header(100, src), Chunk(0, 100), Null>>

---------------------------------------------------------------------------
(* Order of release *)

\* the positions of an event in the log of opens, runs and closes
At(e) == {i \in 1..Len(log) : log[i] = e}

Roles == {"transfer", "command"}

\* C17: in RunCommand, TransferFile and CopyAndRun the Connection is closed
\* only after every Session opened on it has been closed, the command Session
\* is closed before the transfer Session, and no Session is opened or run
\* before the Connection is open or after it has been closed.
C17_ReverseRelease ==
    /\ \A c \in At(<<"close", "conn">>) :
          /\ \A j \in 1..Len(log) : log[j][2] \in Roles => j < c
          /\ \A r \in Roles :
                At(<<"open", r>>) # {} => \E j \in At(<<"close", r>>) : j < c
    /\ \A i \in At(<<"close", "command">>), j \in At(<<"close", "transfer">>) : i < j
    /\ \A r \in Roles :
          /\ \A j \in At(<<"open", r>>) : \E o \in At(<<"open", "conn">>) : o < j
          /\ \A j \in At(<<"run", r>>)  : \E o \in At(<<"open", r>>) : o < j
          /\ \A j \in At(<<"close", r>>) : \E o \in At(<<"open", r>>) : o < j
    /\ conn = "closed" => \A r \in Roles : sess[r] # "open"

C17_Witness ==
    /\ InCopyAndRun /\ pc = "returned"
    /\ Len(log) >= 8
    /\ SubSeq(log, Len(log) - 2, Len(log))
          = << <<"close", "command">>, <<"close", "transfer">>, <<"close", "conn">> >>

---------------------------------------------------------------------------
(* The temporary archive *)

\* ssh.CopyAndRun has been called by transferImage
CopyCalled == \E i \in 1..Len(calls) : calls[i] = "CopyAndRun"

=============================================================================
